---- MODULE Spec2Model ----
(***************************************************************************)
(* GoogleDriveManager (utils/google_drive.py): OAuth2 credential lifecycle *)
(* (token file, in-memory credential, cached Drive service handle) and the *)
(* resource operations built on it.  Managers are separate instances       *)
(* (threads or processes) that share one token file.                       *)
(***************************************************************************)
EXTENDS Integers, FiniteSets, Sequences, TLC

\* ---------------------------------------------------------------- bounds
MaxTime == 2          \* the clock runs 0..MaxTime
MaxTokens == 3        \* access tokens the remote issues in one behaviour
TokenLifetime == 1    \* expires_in of an issued access token, in clock ticks
MaxChunks == 2        \* chunks the transport cuts an upload into

Managers == {"m1", "m2"}

VARIABLES
    file,      \* the token file at token_path, shared by all managers
    now,       \* the clock
    issued,    \* number of access tokens the remote has issued
    grant,     \* the refresh token the remote accepts (0: none)
    creds,     \* self.creds of each manager
    service,   \* self.service of each manager
    pc,        \* position of each manager inside the call it is running
    lastOp,    \* the call a manager is running or ran last
    ret,       \* what that call returned ("pending" while it runs)
    err,       \* the exception the call caught or raised ("none" if none)
    nref,      \* refresh requests sent by that call
    pre,       \* token file, self.creds and clock when that call started
    prev,      \* how the load_credentials just before that call ended, if any
    upl,       \* the transfer of that call, when it is an upload_file
    lastReq,   \* the Drive API request of that call, if it sent one
    revoked    \* a revoke has completed and no code was exchanged since

vars == <<file, now, issued, grant, creds, service, pc, lastOp, ret, err,
          nref, pre, prev, upl, lastReq, revoked>>

\* ------------------------------------------------------------ credentials
\* self.creds = None
None == [tok |-> 0, exp |-> 0, rt |-> 0]

IsCred(c) == c.tok # 0

\* google.oauth2 Credentials.expired
Expired(c) == c.exp <= now

\* google.oauth2 Credentials.valid
Valid(c) == IsCred(c) /\ ~Expired(c)

\* the token file: absent, truncated/partly written, or one pickled record
NoFile == [st |-> "absent", cred |-> None]

Partial == [st |-> "partial", cred |-> None]

\* pickle.dump(self.creds, token)
Pickle(c) == [st |-> "ok", cred |-> c]

\* a pickle.load that loses the refresh token of the record
UnpickleDropsRefreshToken(f) == [f.cred EXCEPT !.rt = 0]

\* pickle.load(token) of a complete record
Unpickle(f) == f.cred

\* os.path.exists(self.token_path)
Exists(f) == f.st # "absent"

\* self.service = None
NoService == [built |-> FALSE, cred |-> None, shared |-> FALSE]

\* build('drive', 'v3', credentials=self.creds): the handle keeps a reference
\* to the credential object (shared: it is the object self.creds points to)
Build(c) == [built |-> TRUE, cred |-> c, shared |-> TRUE]

\* self.creds is bound to another object (or None): a cached handle keeps the
\* object it was built from
Rebind(s) == [s EXCEPT !.shared = FALSE]

\* self.creds is changed in place: a handle sharing the object sees the change
InPlace(s, c) == IF s.built /\ s.shared THEN [s EXCEPT !.cred = c] ELSE s

\* no request issued yet
NoReq == [sent |-> FALSE, valid |-> FALSE, own |-> FALSE]

Snapshot(m) == [file |-> file, creds |-> creds[m], at |-> now]

NoSnapshot == [file |-> NoFile, creds |-> None, at |-> 0]

\* the call before was not a load_credentials at the same clock value
NoPrev == [ret |-> "none", err |-> "none"]

\* the call manager m ran last, when it is a load_credentials that ended and
\* no time has passed since
Previous(m) ==
    IF lastOp[m] = "load_credentials" /\ pre[m].at = now
       THEN [ret |-> ret[m], err |-> err[m]]
       ELSE NoPrev

\* the names a caller passes to upload_file: none, or a file name
Filenames == {"", "report.pdf"}

\* the call is no upload_file
NoUpload == [name |-> "", sent |-> FALSE, start |-> 0, acked |-> 0]

\* def is_authenticated(self)
is_authenticated(m) == IsCred(creds[m]) /\ Valid(creds[m])

\* ---------------------------------------------------------------- Init
\* __init__ of every manager on a fresh installation (no token file yet)
Init ==
    /\ file = NoFile
    /\ now = 0
    /\ issued = 0
    /\ grant = 0
    /\ creds = [m \in Managers |-> None]
    /\ service = [m \in Managers |-> NoService]
    /\ pc = [m \in Managers |-> "idle"]
    /\ lastOp = [m \in Managers |-> "init"]
    /\ ret = [m \in Managers |-> "none"]
    /\ err = [m \in Managers |-> "none"]
    /\ nref = [m \in Managers |-> 0]
    /\ pre = [m \in Managers |-> NoSnapshot]
    /\ prev = [m \in Managers |-> NoPrev]
    /\ upl = [m \in Managers |-> NoUpload]
    /\ lastReq = [m \in Managers |-> NoReq]
    /\ revoked = FALSE

\* a call of manager m starts; u is its transfer
BeginWith(m, op, u) ==
    /\ pc[m] = "idle"
    /\ lastOp' = [lastOp EXCEPT ![m] = op]
    /\ nref' = [nref EXCEPT ![m] = 0]
    /\ pre' = [pre EXCEPT ![m] = Snapshot(m)]
    /\ prev' = [prev EXCEPT ![m] = Previous(m)]
    /\ upl' = [upl EXCEPT ![m] = u]

\* a call of manager m starts that is no resource operation: it has no
\* transfer and sends no Drive API request
Begin(m, op) ==
    /\ BeginWith(m, op, NoUpload)
    /\ lastReq' = [lastReq EXCEPT ![m] = NoReq]

\* a call of manager m ends
End(m, r, e) ==
    /\ pc' = [pc EXCEPT ![m] = "idle"]
    /\ ret' = [ret EXCEPT ![m] = r]
    /\ err' = [err EXCEPT ![m] = e]

\* a call of manager m goes on at position p
Goto(m, p, e) ==
    /\ pc' = [pc EXCEPT ![m] = p]
    /\ ret' = [ret EXCEPT ![m] = "pending"]
    /\ err' = [err EXCEPT ![m] = e]

BoolStr(b) == IF b THEN "True" ELSE "False"

\* ------------------------------------------------------- load_credentials
\* lines 44-46 on a truncated or partly written token file: pickle.load
\* raises (EOFError / UnpicklingError); nothing catches it
LoadCorrupt(m) ==
    /\ Begin(m, "load_credentials")
    /\ file.st = "partial"
    /\ End(m, "raised", "unpickle")
    /\ UNCHANGED <<file, now, issued, grant, creds, service, revoked>>

\* what self.creds is after lines 44-46
Loaded(m) == IF Exists(file) THEN Unpickle(file) ELSE creds[m]

\* line 49 without its test of creds.expired
NeedsRefreshAlways(c) == IsCred(c) /\ c.rt # 0

\* line 49 without its test of creds.refresh_token
NeedsRefreshIgnoresToken(c) == IsCred(c) /\ Expired(c)

\* line 49
NeedsRefresh(c) == IsCred(c) /\ Expired(c) /\ c.rt # 0

\* lines 44-49 and, when nothing is to refresh, line 57
LoadRead(m) ==
    /\ Begin(m, "load_credentials")
    /\ file.st # "partial"
    /\ creds' = [creds EXCEPT ![m] = Loaded(m)]
    /\ service' = [service EXCEPT ![m] =
                      IF Exists(file) THEN Rebind(@) ELSE @]
    /\ IF NeedsRefresh(Loaded(m))
          THEN Goto(m, "L_refresh", "none")
          ELSE End(m, BoolStr(Valid(Loaded(m))), "none")
    /\ UNCHANGED <<file, now, issued, grant, revoked>>

\* a refresh that replaces the access token and leaves the old expiry
RefreshedKeepsExpiry(c) == [c EXCEPT !.tok = issued + 1]

\* the credential after a successful refresh: new access token and expiry,
\* the refresh token kept
Refreshed(c) == [c EXCEPT !.tok = issued + 1, !.exp = now + TokenLifetime]

\* line 51, the remote accepts the refresh token
LoadRefreshOk(m) ==
    /\ pc[m] = "L_refresh"
    /\ creds[m].rt = grant
    /\ issued < MaxTokens
    /\ issued' = issued + 1
    /\ nref' = [nref EXCEPT ![m] = @ + 1]
    /\ creds' = [creds EXCEPT ![m] = Refreshed(@)]
    /\ service' = [service EXCEPT ![m] = InPlace(@, Refreshed(creds[m]))]
    /\ Goto(m, "L_open", "none")
    /\ UNCHANGED <<file, now, grant, lastOp, pre, prev, upl, lastReq, revoked>>

\* lines 53-57 after a failed refresh
RefreshFailed(m, e) ==
    /\ nref' = [nref EXCEPT ![m] = @ + 1]
    /\ creds' = [creds EXCEPT ![m] = None]
    /\ service' = [service EXCEPT ![m] = Rebind(@)]
    /\ End(m, "False", e)
    /\ UNCHANGED <<file, now, issued, grant, lastOp, pre, prev, upl, lastReq, revoked>>

\* line 51, the request does not get through (TransportError)
LoadRefreshTransient(m) ==
    /\ pc[m] = "L_refresh"
    /\ RefreshFailed(m, "transient")

\* line 51, the remote rejects the refresh token (RefreshError: invalid_grant)
LoadRefreshRejected(m) ==
    /\ pc[m] = "L_refresh"
    /\ creds[m].rt # grant
    /\ RefreshFailed(m, "rejected")

\* line 61: open(self.token_path, 'wb') creates or truncates the file
OpenWB(f) == Partial

\* line 52 -> 61
LoadSaveOpen(m) ==
    /\ pc[m] = "L_open"
    /\ file' = OpenWB(file)
    /\ Goto(m, "L_dump", "none")
    /\ UNCHANGED <<now, issued, grant, creds, service, lastOp, nref, pre, prev, upl, lastReq, revoked>>

\* line 62, then line 57
LoadSaveDump(m) ==
    /\ pc[m] = "L_dump"
    /\ file' = Pickle(creds[m])
    /\ End(m, BoolStr(is_authenticated(m)), "none")
    /\ UNCHANGED <<now, issued, grant, creds, service, lastOp, nref, pre, prev, upl, lastReq, revoked>>

\* line 61 or 62 raises OSError (disk full, no permission): lines 53-57
LoadSaveFail(m) ==
    /\ pc[m] \in {"L_open", "L_dump"}
    /\ creds' = [creds EXCEPT ![m] = None]
    /\ service' = [service EXCEPT ![m] = Rebind(@)]
    /\ End(m, "False", "save")
    /\ UNCHANGED <<file, now, issued, grant, lastOp, nref, pre, prev, upl, lastReq, revoked>>

\* ------------------------------------------------- authenticate_from_code
\* flow.credentials after fetch_token: a new access token, with a refresh
\* token when the remote issues one (rt names the grant it belongs to)
Exchanged(hasRT) ==
    [tok |-> issued + 1, exp |-> now + TokenLifetime,
     rt |-> IF hasRT THEN issued + 1 ELSE 0]

\* lines 107-115: the flow is built, the code is exchanged, self.creds is set
AuthFetchOk(m) ==
    /\ Begin(m, "authenticate_from_code")
    /\ issued < MaxTokens
    /\ \E hasRT \in BOOLEAN :
          /\ creds' = [creds EXCEPT ![m] = Exchanged(hasRT)]
          /\ grant' = IF hasRT THEN issued + 1 ELSE grant
    /\ issued' = issued + 1
    /\ service' = [service EXCEPT ![m] = Rebind(@)]
    /\ Goto(m, "A_open", "none")
    /\ revoked' = FALSE
    /\ UNCHANGED <<file, now>>

\* a failing exchange that has opened the token file for writing before the
\* fetch
AuthFetchFailTruncates(m) ==
    /\ Begin(m, "authenticate_from_code")
    /\ file' = OpenWB(file)
    /\ End(m, "False", "fetch")
    /\ UNCHANGED <<now, issued, grant, creds, service, revoked>>

\* lines 107-114 raise (no client secrets, transport error, bad code):
\* lines 118-120
AuthFetchFail(m) ==
    /\ Begin(m, "authenticate_from_code")
    /\ End(m, "False", "fetch")
    /\ UNCHANGED <<file, now, issued, grant, creds, service, revoked>>

\* line 116 -> 61
AuthSaveOpen(m) ==
    /\ pc[m] = "A_open"
    /\ file' = OpenWB(file)
    /\ Goto(m, "A_dump", "none")
    /\ UNCHANGED <<now, issued, grant, creds, service, lastOp, nref, pre, prev, upl, lastReq, revoked>>

\* line 62, then line 117
AuthSaveDump(m) ==
    /\ pc[m] = "A_dump"
    /\ file' = Pickle(creds[m])
    /\ End(m, "True", "none")
    /\ UNCHANGED <<now, issued, grant, creds, service, lastOp, nref, pre, prev, upl, lastReq, revoked>>

\* line 61 or 62 raises OSError: lines 118-120
AuthSaveFail(m) ==
    /\ pc[m] \in {"A_open", "A_dump"}
    /\ End(m, "False", "save")
    /\ UNCHANGED <<file, now, issued, grant, creds, service, lastOp, nref, pre, prev, upl, lastReq, revoked>>

\* --------------------------------------------------- revoke_authentication
\* lines 126-127 without line 127
ForgetKeepsService(m) ==
    /\ creds' = [creds EXCEPT ![m] = None]
    /\ UNCHANGED service

\* lines 126-127
Forget(m) ==
    /\ creds' = [creds EXCEPT ![m] = None]
    /\ service' = [service EXCEPT ![m] = NoService]

\* line 124 with an early return when there is no token file
RevokeCheckSkipsForget(m) ==
    /\ Begin(m, "revoke_authentication")
    /\ IF Exists(file)
          THEN Goto(m, "R_remove", "none")
          ELSE End(m, "None", "none")
    /\ UNCHANGED <<file, now, issued, grant, creds, service, revoked>>

\* line 124; with no token file also lines 126-127
RevokeCheck(m) ==
    /\ Begin(m, "revoke_authentication")
    /\ IF Exists(file)
          THEN /\ Goto(m, "R_remove", "none")
               /\ UNCHANGED <<creds, service, revoked>>
          ELSE /\ End(m, "None", "none")
               /\ Forget(m)
               /\ revoked' = TRUE
    /\ UNCHANGED <<file, now, issued, grant>>

\* lines 125-127
RevokeRemove(m) ==
    /\ pc[m] = "R_remove"
    /\ Exists(file)
    /\ file' = NoFile
    /\ Forget(m)
    /\ End(m, "None", "none")
    /\ revoked' = TRUE
    /\ UNCHANGED <<now, issued, grant, lastOp, nref, pre, prev, upl, lastReq>>

\* line 125 when another manager removed the file after line 124:
\* os.remove raises FileNotFoundError, lines 126-127 do not run
RevokeRemoveRaced(m) ==
    /\ pc[m] = "R_remove"
    /\ ~Exists(file)
    /\ End(m, "raised", "FileNotFoundError")
    /\ UNCHANGED <<file, now, issued, grant, creds, service, lastOp, nref, pre, prev, upl, lastReq, revoked>>

\* ------------------------------------------------------ resource operations
\* an operation that lets the exception leave
FailureRaises(op) == "raised"

\* what an operation returns when it caught an exception
Failure(op) ==
    CASE op = "upload_file" -> "success=False"
      [] op = "create_folder" -> "None"
      [] OTHER -> "[]"

\* what an operation returns when the remote answered
Success(op) ==
    CASE op = "upload_file" -> "success=True"
      [] op = "create_folder" -> "id"
      [] OTHER -> "files"

\* _get_service, line 131-132: no handle is cached and the manager is not
\* authenticated
GetServiceRaises(m) == ~service[m].built /\ ~is_authenticated(m)

\* _get_service, lines 131-135: the handle the operation uses
GetService(m) == IF service[m].built THEN service[m] ELSE Build(creds[m])

\* the request .execute() sends, with the credential of the handle: whether
\* that credential is valid then, and whether it is what self.creds holds then
Request(m) ==
    [sent |-> TRUE, valid |-> Valid(GetService(m).cred),
     own |-> IsCred(creds[m]) /\ GetService(m).cred = creds[m]]

\* the body shared by upload_file, create_folder and list_files: _get_service,
\* then one request; every exception is caught (u: the transfer, for an
\* upload_file)
ResourceOp(m, op, ok, u) ==
    /\ BeginWith(m, op, u)
    /\ IF GetServiceRaises(m)
          THEN /\ End(m, Failure(op), "not_authenticated")
               /\ lastReq' = [lastReq EXCEPT ![m] = NoReq]
               /\ UNCHANGED service
          ELSE /\ service' = [service EXCEPT ![m] = GetService(m)]
               /\ lastReq' = [lastReq EXCEPT ![m] = Request(m)]
               /\ End(m, IF ok THEN Success(op) ELSE Failure(op),
                         IF ok THEN "none" ELSE "remote")
    /\ UNCHANGED <<file, now, issued, grant, creds, revoked>>

\* lines 158-159: file_content.seek(0), the offset every upload_file starts
\* sending at
Rewind == 0

\* the numbers of chunks the transport may acknowledge to an upload of
\* manager m: none when _get_service raises, since nothing is sent then
Acknowledged(m) == IF GetServiceRaises(m) THEN {0} ELSE 0..MaxChunks

\* whether the remote may answer a request of manager m: it is not asked when
\* _get_service raises
Answers(m) == IF GetServiceRaises(m) THEN {FALSE} ELSE BOOLEAN

\* lines 153-171 for the name fname, when the transport acknowledges k chunks
\* before it fails or, with k = MaxChunks, ends the upload: the request is
\* built from the name as given, and sent unless _get_service raised
Transfer(m, fname, k) ==
    [name |-> fname, sent |-> ~GetServiceRaises(m), start |-> Rewind,
     acked |-> k]

\* lines 137-183: execute() returns when every chunk is acknowledged and
\* raises when the transport fails before
upload_file(m) ==
    \E fname \in Filenames, k \in Acknowledged(m) :
        ResourceOp(m, "upload_file", k = MaxChunks, Transfer(m, fname, k))

\* lines 185-215
create_folder(m) ==
    \E ok \in Answers(m) : ResourceOp(m, "create_folder", ok, NoUpload)

\* lines 217-244
list_files(m) ==
    \E ok \in Answers(m) : ResourceOp(m, "list_files", ok, NoUpload)

\* ------------------------------------------------------------ environment
\* time passes between calls; what is recorded of a manager's last call
\* describes a call at the present clock, and is dropped
Tick ==
    /\ now < MaxTime
    /\ \A m \in Managers : pc[m] = "idle"
    /\ now' = now + 1
    /\ lastOp' = [m \in Managers |->
                     IF lastOp[m] = "init" THEN "init" ELSE "earlier"]
    /\ ret' = [m \in Managers |-> "none"]
    /\ err' = [m \in Managers |-> "none"]
    /\ nref' = [m \in Managers |-> 0]
    /\ pre' = [m \in Managers |-> NoSnapshot]
    /\ prev' = [m \in Managers |-> NoPrev]
    /\ upl' = [m \in Managers |-> NoUpload]
    /\ lastReq' = [m \in Managers |-> NoReq]
    /\ UNCHANGED <<file, issued, grant, creds, service, pc, revoked>>

\* the user withdraws the grant at the remote: its refresh token is rejected
\* from now on
RemoteRevoke ==
    /\ grant # 0
    /\ grant' = 0
    /\ UNCHANGED <<file, now, issued, creds, service, pc, lastOp, ret, err,
                   nref, pre, prev, upl, lastReq, revoked>>

\* the process of manager m dies at any point and is started again: __init__
Crash(m) ==
    /\ creds' = [creds EXCEPT ![m] = None]
    /\ service' = [service EXCEPT ![m] = NoService]
    /\ pc' = [pc EXCEPT ![m] = "idle"]
    /\ lastOp' = [lastOp EXCEPT ![m] = "init"]
    /\ ret' = [ret EXCEPT ![m] = "none"]
    /\ err' = [err EXCEPT ![m] = "none"]
    /\ nref' = [nref EXCEPT ![m] = 0]
    /\ pre' = [pre EXCEPT ![m] = NoSnapshot]
    /\ prev' = [prev EXCEPT ![m] = NoPrev]
    /\ upl' = [upl EXCEPT ![m] = NoUpload]
    /\ lastReq' = [lastReq EXCEPT ![m] = NoReq]
    /\ UNCHANGED <<file, now, issued, grant, revoked>>

\* ------------------------------------------------------------------ Next
\* the steps of load_credentials, authenticate_from_code and
\* revoke_authentication when the token file can be written
CallStep(m) ==
    \/ LoadCorrupt(m)
    \/ LoadRead(m)
    \/ LoadRefreshOk(m)
    \/ LoadRefreshTransient(m)
    \/ LoadRefreshRejected(m)
    \/ LoadSaveOpen(m)
    \/ LoadSaveDump(m)
    \/ AuthFetchOk(m)
    \/ AuthFetchFail(m)
    \/ AuthSaveOpen(m)
    \/ AuthSaveDump(m)
    \/ RevokeCheck(m)
    \/ RevokeRemove(m)

\* every step of one manager
Step(m) ==
    \/ CallStep(m)
    \/ LoadSaveFail(m)
    \/ AuthSaveFail(m)
    \/ upload_file(m)
    \/ create_folder(m)
    \/ list_files(m)
    \/ Crash(m)

\* one manager, alone on its token file
Next ==
    \/ Step("m1")
    \/ Tick
    \/ RemoteRevoke

Spec == Init /\ [][Next]_vars

\* two managers that share the token file run their authentication calls
\* concurrently
NextShared ==
    \/ \E m \in Managers : CallStep(m) \/ RevokeRemoveRaced(m)
    \/ Tick

SpecShared == Init /\ [][NextShared]_vars

\* ================================================================ claims
ResourceOps == {"upload_file", "create_folder", "list_files"}

\* the call manager m ran last has returned
Returned(m, op) == pc[m] = "idle" /\ lastOp[m] = op

\* that call has returned and no time has passed since it started
JustReturned(m, op) == Returned(m, op) /\ pre[m].at = now

\* C1: every request a resource operation issues carries a credential that is
\* present and not expired at that moment and is the one the manager holds then
C1_RequestUsesValidCredential ==
    \A m \in Managers :
        lastReq[m].sent => lastReq[m].valid /\ lastReq[m].own

\* C2: after a completed revoke and until a code is exchanged again, every
\* authentication check that has returned has failed as not authenticated:
\* load_credentials returned False, a resource operation failed in
\* _get_service and sent nothing
C2_RevokeThenNotAuthenticated ==
    \A m \in Managers :
        (revoked /\ pc[m] = "idle") =>
            /\ lastOp[m] = "load_credentials" => ret[m] = "False"
            /\ lastOp[m] \in ResourceOps =>
                  err[m] = "not_authenticated" /\ ret[m] = Failure(lastOp[m])
            /\ ~is_authenticated(m)

C2_Witness ==
    /\ revoked
    /\ Returned("m1", "load_credentials")
    /\ ret["m1"] = "False"
    /\ IsCred(pre["m1"].creds) = FALSE
    /\ issued > 0

\* a credential a refresh produced (an exchanged one has tok = rt or rt = 0)
IsRefreshedCred(c) == c.rt # 0 /\ c.tok # c.rt

\* manager m opens the token file for the save of its refreshed credential
\* while the file holds a valid refreshed credential that is not the record m
\* read: one another manager saved in between
OverwritesFresh(m) ==
    /\ pc[m] = "L_open"
    /\ pc'[m] = "L_dump"
    /\ file.st = "ok"
    /\ file # pre[m].file
    /\ IsRefreshedCred(file.cred)
    /\ Valid(file.cred)

\* C3: no save of a refreshed credential overwrites the refreshed credential
\* another manager has saved since the saving manager read the file
C3_NoLostUpdate == [][\A m \in Managers : ~OverwritesFresh(m)]_vars

\* C4: when every process has crashed or not yet run a call (each manager is
\* in its constructed state), the token file is not a partly written record
C4_CrashLeavesCompleteRecord ==
    (\A m \in Managers : lastOp[m] = "init") => file.st # "partial"

\* C5: load_credentials on a missing or unparsable token file does not raise
C5_LoadNeverRaises ==
    \A m \in Managers :
        (Returned(m, "load_credentials") /\ pre[m].file.st # "ok")
            => ret[m] # "raised"

\* self.creds just before the refresh request of the running load_credentials
BeforeRefresh(m) ==
    IF Exists(pre[m].file) THEN Unpickle(pre[m].file) ELSE pre[m].creds

\* C6: after a refresh that failed on the network the credential in memory and
\* the token file are what they were before the attempt, and the call does
\* not answer what it answers to a rejected refresh token (False)
C6_TransientRefreshKeepsCredential ==
    \A m \in Managers :
        (Returned(m, "load_credentials") /\ err[m] = "transient") =>
            /\ creds[m] = BeforeRefresh(m)
            /\ file = pre[m].file
            /\ ret[m] # "False"

\* AuthorizationState, derived from self.creds
AuthState(m) ==
    IF ~IsCred(creds[m]) THEN "Unauthenticated"
    ELSE IF Expired(creds[m]) THEN "Expired"
    ELSE "Authenticated"

\* C7: a manager whose refresh token the remote has just rejected stays
\* Unauthenticated through every step that is not a code exchange: a later
\* load_credentials does not bring the rejected credential back
C7_RejectedStaysUnauthenticated ==
    [][\A m \in Managers :
          (Returned(m, "load_credentials") /\ err[m] = "rejected"
              /\ AuthState(m) = "Unauthenticated"
              /\ lastOp'[m] # "authenticate_from_code")
                  => AuthState(m)' = "Unauthenticated"]_vars

\* C8: a code exchange that failed in the fetch returned False and left the
\* token file as it was when the call started
C8_FailedExchangeKeepsRecord ==
    \A m \in Managers :
        (Returned(m, "authenticate_from_code") /\ err[m] = "fetch") =>
            ret[m] = "False" /\ file = pre[m].file

C8_Witness ==
    /\ Returned("m1", "authenticate_from_code")
    /\ err["m1"] = "fetch"
    /\ file.st = "ok"

\* the load_credentials manager m ran last started on a token file whose
\* credential was expired and had a refresh token
StartedExpired(m) ==
    pre[m].file.st = "ok" /\ NeedsRefresh(pre[m].file.cred)

\* what C9 promises of such a call
RefreshedOnceAndSaved(m) ==
    /\ nref[m] = 1
    /\ ret[m] = "True"
    /\ creds[m].exp > now
    /\ file = Pickle(creds[m])

RepeatsPrevious(m) ==
    /\ pc[m] = "idle"
    /\ nref[m] = 0
    /\ creds[m] = pre[m].creds
    /\ ret[m] = prev[m].ret

C12_ResourceOpsNeverRaise ==
    \A m \in Managers :
        lastOp[m] \in ResourceOps =>
            /\ ret[m] # "raised"
            /\ pc[m] = "idle"
            /\ err[m] # "none" =>
                  /\ lastOp[m] = "upload_file" => ret[m] = "success=False"
                  /\ lastOp[m] = "create_folder" => ret[m] = "None"
                  /\ lastOp[m] = "list_files" => ret[m] = "[]"

\* list_files has sent its request, the remote call has failed, and the
\* operation has returned the empty list
C12_Witness ==
    /\ Returned("m1", "list_files")
    /\ err["m1"] = "remote"
    /\ ret["m1"] = "[]"
    /\ lastReq["m1"].sent

\* the credential load_credentials works on has expired and carries no
\* refresh token
ExpiredWithoutRefreshToken(c) == IsCred(c) /\ Expired(c) /\ c.rt = 0

\* C13: a load_credentials that finds an expired credential without a refresh
\* token sends no refresh request, returns False (the caller has to authorize
\* again), leaves the token file as it was, and the credential it leaves in
\* memory is not valid, so is_authenticated() is False
C13_NoRefreshTokenNoRenewal ==
    \A m \in Managers :
        ( /\ lastOp[m] = "load_credentials"
          /\ pre[m].at = now
          /\ pre[m].file.st # "partial"
          /\ ExpiredWithoutRefreshToken(BeforeRefresh(m)) ) =>
            /\ pc[m] = "idle"
            /\ nref[m] = 0
            /\ ret[m] = "False"
            /\ ~is_authenticated(m)
            /\ file = pre[m].file

\* load_credentials has read an expired credential without a refresh token
\* from the token file and returned
C13_Witness ==
    /\ JustReturned("m1", "load_credentials")
    /\ Exists(pre["m1"].file)
    /\ ExpiredWithoutRefreshToken(BeforeRefresh("m1"))
    /\ ret["m1"] = "False"

\* load_credentials was called with a complete record in the token file
LoadedFromStore(m) ==
    /\ lastOp[m] = "load_credentials"
    /\ pre[m].at = now
    /\ pre[m].file.st = "ok"

\* load_credentials left in memory exactly the credential the token file
\* held, and the token file as it was
RoundTrip(m) ==
    /\ creds[m] = pre[m].file.cred
    /\ file = pre[m].file

RetrySucceeds(m) ==
    /\ lastOp'[m] = "upload_file"
    /\ upl'[m].name = upl[m].name
    /\ ret'[m] = "success=True"

\* the upload_file of manager m before this step failed at the transport
\* after at least one acknowledged chunk
FailedAfterChunks(m) ==
    /\ Returned(m, "upload_file")
    /\ upl[m].name # ""
    /\ err[m] = "remote"
    /\ upl[m].acked > 0

\* C15: when the transport failed an upload after N acknowledged chunks and
\* then works, the upload_file that carries the upload to its end starts
\* sending at chunk N, the last acknowledged offset, so that no chunk below N
\* is sent again
C15_UploadResumesAtAcknowledgedOffset ==
    [][\A m \in Managers :
          (FailedAfterChunks(m) /\ RetrySucceeds(m)) =>
              upl'[m].start = upl[m].acked]_vars

\* C16: an upload_file called with an empty filename is rejected: it returns
\* a failure and has sent no request to the remote
C16_EmptyFilenameRejected ==
    \A m \in Managers :
        (Returned(m, "upload_file") /\ upl[m].name = "") =>
            /\ ~upl[m].sent
            /\ ret[m] = "success=False"

\* C17: whenever a manager is between two calls and holds a cached service
\* handle, it holds a credential in memory and the handle was built from that
\* credential
C17_HandleMatchesCredential ==
    \A m \in Managers :
        (pc[m] = "idle" /\ service[m].built) =>
            /\ IsCred(creds[m])
            /\ service[m].cred = creds[m]

\* manager m is in the save of a load_credentials and creates the token file
LoadSaveCreatesFile(m) ==
    /\ pc[m] = "L_open"
    /\ pc'[m] = "L_dump"
    /\ ~Exists(file)
    /\ Exists(file')

\* C18: once a manager has revoked, and until a code exchange succeeds, no
\* save of a load_credentials on any manager brings the token file back
C18_LoadNeverUndoesRevoke ==
    [][\A m \in Managers : LoadSaveCreatesFile(m) => ~revoked]_vars

\* C19: authenticate_from_code returns True only with the newly issued
\* credential in memory and an equal record in the token file, and when it
\* returns False the credential in memory and the token file are what they
\* were before the call
C19_AuthenticateAllOrNothing ==
    \A m \in Managers :
        Returned(m, "authenticate_from_code") =>
            /\ ret[m] \in {"True", "False"}
            /\ ret[m] = "True" =>
                  /\ IsCred(creds[m])
                  /\ creds[m].tok = issued
                  /\ file = Pickle(creds[m])
            /\ ret[m] = "False" =>
                  /\ creds[m] = pre[m].creds
                  /\ file = pre[m].file

==============================================================================
